---- MODULE Spec2Model ----
(***************************************************************************)
(* Authentication and tenant-context core of the lab-management backend:   *)
(* the thread-local tenant context (core/middleware.py), the tenant        *)
(* middleware, the request authenticator (core/auth.py, core/jwt_auth.py)  *)
(* and the tenant/user records they read (tenants/models.py,               *)
(* accounts/models.py).                                                    *)
(*                                                                         *)
(* Each worker thread serves one request at a time.  Django drives the     *)
(* middleware hooks: process_request, then the view (only when             *)
(* process_request returned None), process_exception when the view raised, *)
(* and process_response on the response.  An exception raised inside       *)
(* process_request leaves the middleware without any further hook.         *)
(*                                                                         *)
(* Paths are sequences of segments: "/api/v1/auth/login/" is               *)
(* <<"api","v1","auth","login">>.  Every configured prefix starts and ends *)
(* with "/", so str.startswith is the prefix order on segments.            *)
(***************************************************************************)
EXTENDS Integers, Sequences, FiniteSets, TLC

VARIABLES
    thread_locals,   \* _thread_locals: per thread, the set of bound 'tenant' attributes
    req,             \* per thread, the request being served and where it stands
    users,           \* the users table
    tenants,         \* the tenants table: is_active per tenant
    deactivating,    \* tenants with a deactivate() call between its two statements
    storage_up,      \* whether the database answers queries
    db_ops,          \* number of record operations (deactivate, activate, delete, edit) so far
    issued,          \* the access tokens handed out by the login view
    patients,        \* the patients table
    perm,            \* a permission check: the request and object given, and the answer
    login            \* the last login attempt and the login view's response to it

vars == <<thread_locals, req, users, tenants, deactivating, storage_up, db_ops,
          issued, patients, perm, login>>

\* The model follows at most this many record operations.
MaxDbOps == 2
\* The model follows at most this many logins that hand out a new token.
MaxLogins == 2
\* The model follows at most this many patient records.
MaxPatients == 2

----------------------------------------------------------------------------
(* Universe *)

Threads == {"th1", "th2"}
TenantIds == {"tA", "tB"}
UserIds == {"u1", "u2", "u3"}
\* The ids of the users that may be created later, and all ids of the table.
NewUserIds == {"u4"}
AllUserIds == UserIds \cup NewUserIds
None == "None"

TENANT_ADMIN == "tenant_admin"
TENANT_USER == "tenant_user"
ADMIN == "admin"

\* A Tenant instance as loaded from the database; NoneTenant stands for None.
TenantInst(id, active) == [id |-> id, is_active |-> active]
NoneTenant == TenantInst(None, FALSE)

\* The users the system starts with: one member of each tenant and a
\* platform admin without a tenant.
InitUsers ==
    [u \in AllUserIds |->
        CASE u \in NewUserIds ->
                         [exists |-> FALSE, tenant |-> None, is_active |-> FALSE,
                          role |-> None, is_staff |-> FALSE]
          [] u = "u1" -> [exists |-> TRUE, tenant |-> "tA", is_active |-> TRUE,
                          role |-> TENANT_USER, is_staff |-> FALSE]
          [] u = "u2" -> [exists |-> TRUE, tenant |-> "tB", is_active |-> TRUE,
                          role |-> TENANT_ADMIN, is_staff |-> FALSE]
          [] OTHER    -> [exists |-> TRUE, tenant |-> None, is_active |-> TRUE,
                          role |-> ADMIN, is_staff |-> TRUE]]

----------------------------------------------------------------------------
(* Tokens and headers *)

\* A token: its form as the validator sees it and the claims it carries.
\* form "ok" is well formed, correctly signed and unexpired; user_id None
\* is a payload without the user_id claim.  The role claim is the user's
\* role at issuance.
Token(form, uid, role) == [form |-> form, user_id |-> uid, role |-> role]
EmptyToken == Token("empty", None, None)

\* accounts/AuthStrategy/JwtAuthStrategy.py process_authentication: the
\* access token carries the user's id and the role the user has now.
process_authentication(user_id, user) == Token("ok", user_id, user.role)

\* The login view's response: failure_response(serializer.errors), or
\* success_response with the strategy's token_dict (access_token,
\* refresh_token, user_id, role).
LoginResponse(u, password_ok, error, token) ==
    [user |-> u, password_ok |-> password_ok, error |-> error,
     keys |-> IF error = None
              THEN {"access_token", "refresh_token", "user_id", "role"}
              ELSE {},
     access_token |-> token]
NoLogin == [user |-> None, password_ok |-> FALSE, error |-> None, keys |-> {},
            access_token |-> EmptyToken]

\* The tokens handed out before the model starts: one login of every user.
InitIssued == {process_authentication(u, InitUsers[u]) : u \in UserIds}

\* "expired_badsig" is past its expiry and carries a wrong signature.
Tokens ==
    InitIssued
    \cup {Token("ok", None, TENANT_USER),
          Token("malformed", None, None),
          Token("badsig", "u1", TENANT_USER),
          Token("expired", "u1", TENANT_USER),
          Token("expired_badsig", "u1", TENANT_USER)}

\* The Authorization header: absent, another scheme, or "Bearer <token>"
\* ("Bearer " alone carries the empty token).
Header(scheme, token) == [scheme |-> scheme, token |-> token]
NoHeader == Header(None, EmptyToken)
Headers ==
    {NoHeader, Header("Basic", EmptyToken), Header("Bearer", EmptyToken)}
    \cup {Header("Bearer", tk) : tk \in Tokens}

----------------------------------------------------------------------------
(* Paths *)

IsPrefix(p, s) == Len(p) <= Len(s) /\ SubSeq(s, 1, Len(p)) = p

EXCLUDED_PATHS ==
    { <<"admin">>,
      <<"api", "v1", "auth", "register">>,
      <<"api", "v1", "auth", "login">>,
      <<"api", "v1", "auth", "refresh">>,
      <<"api", "v1", "tenants", "register">>,
      <<"api", "v1", "tenants", "create-tenant">>,
      <<"swagger">>,
      <<"redoc">>,
      <<"api", "schema">> }

\* core/public_url.py: login, registration, health and docs endpoints.
PUBLIC_URL ==
    { <<"api", "v1", "auth", "login">>,
      <<"api", "v1", "auth", "register">>,
      <<"api", "v1", "tenants", "register">>,
      <<"health">>,
      <<"swagger">>,
      <<"redoc">> }

\* any(request.path.startswith(path) for path in self.EXCLUDED_PATHS)
\* (faulty variant: equality instead of startswith)
IsExcludedExact(path) == path \in EXCLUDED_PATHS
IsExcluded(path) == \E p \in EXCLUDED_PATHS : IsPrefix(p, path)
\* any(request.path.startswith(path) for path in PUBLIC_URL)
IsPublic(path) == \E p \in PUBLIC_URL : IsPrefix(p, path)

\* The request paths the model sends: one under an excluded prefix, one
\* that is public for the authenticator only, one protected.
AdminPath == <<"admin", "login">>
HealthPath == <<"health">>
PatientPath == <<"api", "v1", "patients", "patient">>
Paths == {AdminPath, HealthPath, PatientPath}

----------------------------------------------------------------------------
(* Exceptions and responses *)

Exc(kind, msg) == [exc |-> kind, msg |-> msg]
NoExc == Exc(None, None)
CustomAuthenticationFailed(msg) == Exc("CustomAuthenticationFailed", msg)

JsonResponse(error, detail, status) ==
    [status |-> status, error |-> error, detail |-> detail]
NoResponse == JsonResponse(None, None, None)
HTTP_403_FORBIDDEN == "403"

----------------------------------------------------------------------------
(* Tenant context: core/middleware.py *)

get_current_tenant(tl, t) ==
    IF tl[t] = {} THEN NoneTenant ELSE CHOOSE x \in tl[t] : TRUE

\* (faulty variant: one variable shared by every thread, not a threading.local)
set_current_tenant_shared(tl, t, tenant) == [x \in DOMAIN tl |-> {tenant}]
set_current_tenant(tl, t, tenant) == [tl EXCEPT ![t] = {tenant}]

\* delattr(_thread_locals, 'tenant'): AttributeError when there is none.
delattr_tenant(tl, t) ==
    IF tl[t] = {} THEN [raised |-> TRUE, tl |-> tl]
    ELSE [raised |-> FALSE, tl |-> [tl EXCEPT ![t] = {}]]

\* A call of clear_current_tenant: the storage it leaves and whether it raised.
\* (faulty variant: delattr without the hasattr test)
clear_current_tenant_call_unguarded(tl, t) == delattr_tenant(tl, t)
clear_current_tenant_call(tl, t) ==
    IF tl[t] # {} THEN delattr_tenant(tl, t) ELSE [raised |-> FALSE, tl |-> tl]

\* (faulty variant: nothing is cleared)
clear_current_tenant_noop(tl, t) == tl
clear_current_tenant(tl, t) == clear_current_tenant_call(tl, t).tl

----------------------------------------------------------------------------
(* Request authenticator: core/jwt_auth.py, core/auth.py *)

\* core/auth.py AuthenticatedUser: the role comes from the token, the
\* tenant and is_staff from the user record; user.tenant loads the Tenant row.
\* (faulty variant: the role is read from the user record)
AuthenticatedUserLiveRole(user_id, role, user, tn) ==
    [id |-> user_id, role |-> user.role, is_authenticated |-> TRUE,
     tenant |-> IF user.tenant = None THEN NoneTenant
                ELSE TenantInst(user.tenant, tn[user.tenant]),
     is_staff |-> user.is_staff]
AuthenticatedUser(user_id, role, user, tn) ==
    [id |-> user_id, role |-> role, is_authenticated |-> TRUE,
     tenant |-> IF user.tenant = None THEN NoneTenant
                ELSE TenantInst(user.tenant, tn[user.tenant]),
     is_staff |-> user.is_staff]
NoUser ==
    [id |-> None, role |-> None, is_authenticated |-> FALSE,
     tenant |-> NoneTenant, is_staff |-> FALSE]

\* UntypedToken(token) accepts a well-formed, correctly signed, unexpired
\* token; every rejection becomes the one CustomAuthenticationFailed.
\* (faulty variants: the message names the cause; the expiry is not checked)
token_validation_detailed(token) ==
    IF token.form = "ok"
    THEN [ok |-> TRUE, exc |-> NoExc]
    ELSE [ok |-> FALSE, exc |-> CustomAuthenticationFailed(token.form)]
token_validation_noexpiry(token) ==
    IF token.form \in {"ok", "expired"}
    THEN [ok |-> TRUE, exc |-> NoExc]
    ELSE [ok |-> FALSE, exc |-> CustomAuthenticationFailed("Token expired or Invalid")]
token_validation(token) ==
    IF token.form = "ok"
    THEN [ok |-> TRUE, exc |-> NoExc]
    ELSE [ok |-> FALSE, exc |-> CustomAuthenticationFailed("Token expired or Invalid")]

\* User.objects.get(id=user_id): the row, DoesNotExist when there is none,
\* a database error when the storage cannot be reached.
get_user(user_id, us, db_up) ==
    IF ~db_up THEN [ok |-> FALSE, exc |-> Exc("OperationalError", "storage unavailable")]
    ELSE IF user_id \notin DOMAIN us \/ ~us[user_id].exists
         THEN [ok |-> FALSE, exc |-> Exc("DoesNotExist", "User matching query does not exist.")]
         ELSE [ok |-> TRUE, exc |-> NoExc]

\* The outcome of an authenticate call: what it returned or raised, and the
\* collaborators it called.
AuthOutcome(kind, exc, user, calls) ==
    [kind |-> kind, exc |-> exc, user |-> user, calls |-> calls]

\* not auth_header or not auth_header.startswith('Bearer ')
HeaderUnusable(header) == header.scheme # "Bearer"

\* user_id is None
\* (faulty variant: the test left out)
SubjectMissingUnchecked(token) == FALSE
SubjectMissing(token) == token.user_id = None

JwtAuthenticate(header, us, tn, db_up) ==
    IF HeaderUnusable(header)
    THEN AuthOutcome("raise",
            CustomAuthenticationFailed("Authorization Details is missing or invalid"),
            NoUser, {})
    ELSE LET token == header.token
             v == token_validation(token)
         IN IF ~v.ok
            THEN AuthOutcome("raise", v.exc, NoUser, {"token_validation"})
            ELSE IF SubjectMissing(token)
            THEN AuthOutcome("raise",
                    CustomAuthenticationFailed("Token expired or Invalid"),
                    NoUser, {"token_validation"})
            ELSE LET g == get_user(token.user_id, us, db_up)
                 IN IF ~g.ok
                    THEN AuthOutcome("raise", g.exc, NoUser,
                            {"token_validation", "get_user"})
                    ELSE AuthOutcome("ok", NoExc,
                            AuthenticatedUser(token.user_id, token.role,
                                              us[token.user_id], tn),
                            {"token_validation", "get_user"})

\* AuthenticationService.authenticate: None on a public path, otherwise the
\* strategy's result; a CustomAuthenticationFailed is re-raised as it is.
ServiceAuthenticate(path, header, us, tn, db_up) ==
    IF IsPublic(path)
    THEN AuthOutcome("none", NoExc, NoUser, {})
    ELSE JwtAuthenticate(header, us, tn, db_up)

----------------------------------------------------------------------------
(* Tenant middleware: core/middleware.py *)

\* What one call of process_request did: the thread-local storage it left,
\* whether it returned None ("None"), returned a response ("response") or
\* let an exception out ("raise"), and what it attached to the request.
Processed(tl, ret, resp, exc, auth, tenant, calls) ==
    [tl |-> tl, ret |-> ret, resp |-> resp, exc |-> exc, auth |-> auth,
     tenant |-> tenant, calls |-> calls]

NotCalled == AuthOutcome("notcalled", NoExc, NoUser, {})

\* not hasattr(user, 'tenant') or not user.tenant
\* (faulty variant: the test left out)
LacksTenantUnchecked(user) == FALSE
LacksTenant(user) == user.tenant = NoneTenant

\* not tenant.is_active
\* (faulty variants: the test left out; the "not" left out)
TenantInactiveUnchecked(tenant) == FALSE
TenantInactiveInverted(tenant) == tenant.is_active
TenantInactive(tenant) == ~tenant.is_active

\* The part of process_request after authenticate returned (user, token).
resolve_tenant(cleared, t, a, c1) ==
    IF a.user = NoUser
    THEN Processed(cleared, "response",
            JsonResponse("Credential Missing",
                         "unable to authenticate your account",
                         HTTP_403_FORBIDDEN),
            NoExc, a, NoneTenant, c1)
    ELSE IF LacksTenant(a.user)
    THEN Processed(cleared, "response",
            JsonResponse("No tenant associated with user",
                         "Your account is not associated with any organization.",
                         HTTP_403_FORBIDDEN),
            NoExc, a, NoneTenant, c1)
    ELSE IF TenantInactive(a.user.tenant)
    THEN Processed(cleared, "response",
            JsonResponse("Tenant inactive",
                         "Your organization account has been deactivated.",
                         HTTP_403_FORBIDDEN),
            NoExc, a, NoneTenant, c1)
    ELSE Processed(set_current_tenant(cleared, t, a.user.tenant),
            "None", NoResponse, NoExc, a, a.user.tenant,
            c1 \cup {"set_current_tenant"})

process_request(tl, t, path, header, us, tn, db_up) ==
    LET cleared == clear_current_tenant(tl, t)
        c0 == {"clear_current_tenant"}
    IN IF IsExcluded(path)
       THEN Processed(cleared, "None", NoResponse, NoExc, NotCalled, NoneTenant, c0)
       ELSE
       LET a == ServiceAuthenticate(path, header, us, tn, db_up)
           c1 == c0 \cup {"authenticate"} \cup a.calls
       IN CASE a.kind = "raise" ->
                \* nothing in process_request catches what authenticate raises
                Processed(cleared, "raise", NoResponse, a.exc, a, NoneTenant, c1)
            [] a.kind = "none" ->
                \* user, token = None
                Processed(cleared, "raise", NoResponse,
                          Exc("TypeError", "cannot unpack non-iterable NoneType object"),
                          a, NoneTenant, c1)
            [] OTHER -> resolve_tenant(cleared, t, a, c1)

\* (faulty variant: the context is not cleared)
process_response_keep(tl, t) == tl
process_response(tl, t) == clear_current_tenant(tl, t)

process_exception(tl, t) == clear_current_tenant(tl, t)

----------------------------------------------------------------------------
(* Permission checks: core/permission.py *)

\* request.user as the permission classes see it: None (null), or an object
\* with the attributes named in has.  DRF's AnonymousUser has
\* is_authenticated = False and neither role nor tenant.
RequestUser(null, has, is_authenticated, role, tenant) ==
    [null |-> null, has |-> has, is_authenticated |-> is_authenticated,
     role |-> role, tenant |-> tenant]
NullRequestUser == RequestUser(TRUE, {}, FALSE, None, NoneTenant)
AnonymousUser == RequestUser(FALSE, {"is_authenticated"}, FALSE, None, NoneTenant)
AsRequestUser(a) ==
    RequestUser(FALSE, {"is_authenticated", "role", "tenant"},
                a.is_authenticated, a.role, a.tenant)

\* The object of an object-level check, with or without a tenant attribute.
Obj(has_tenant, tenant) == [has_tenant |-> has_tenant, tenant |-> tenant]

\* a == b on two tenant attributes: None equals None only, and two Tenant
\* instances are equal when their primary keys are.
TenantEq(a, b) == a.id = b.id

SAFE_METHODS == {"GET", "HEAD", "OPTIONS"}
Methods == SAFE_METHODS \cup {"POST", "PUT", "PATCH", "DELETE"}

\* What a permission method returns: "True", "False", "None" (the value of
\* "request.user and ..." for a null user), or the exception it raises.
Grants(answer) == answer = "True"
Bool(b) == IF b THEN "True" ELSE "False"

\* IsTenantAdmin.has_permission
IsTenantAdmin(user) ==
    IF user.null THEN "None"
    ELSE IF "is_authenticated" \notin user.has THEN "AttributeError"
    ELSE IF ~user.is_authenticated THEN "False"
    ELSE IF "role" \notin user.has THEN "AttributeError"
    ELSE Bool(user.role = TENANT_ADMIN)

\* IsTenantUser.has_permission
IsTenantUser(user) ==
    IF user.null THEN "None"
    ELSE IF "is_authenticated" \notin user.has THEN "AttributeError"
    ELSE IF ~user.is_authenticated THEN "False"
    ELSE IF "tenant" \notin user.has THEN "False"
    ELSE Bool(user.tenant # NoneTenant)

\* IsTenantAdminOrReadOnly.has_permission
\* (faulty variant: every method is treated as a safe one)
IsTenantAdminOrReadOnlyAllSafe(user, method) ==
    IF user.null THEN "False"
    ELSE IF "is_authenticated" \notin user.has THEN "AttributeError"
    ELSE Bool(user.is_authenticated)
IsTenantAdminOrReadOnly(user, method) ==
    IF user.null THEN "False"
    ELSE IF "is_authenticated" \notin user.has THEN "AttributeError"
    ELSE IF ~user.is_authenticated THEN "False"
    ELSE IF method \in SAFE_METHODS THEN "True"
    ELSE IF "role" \notin user.has THEN "AttributeError"
    ELSE Bool(user.role = TENANT_ADMIN)

\* IsSameTenant.has_object_permission
\* (faulty variant: no test that the object has a tenant attribute)
IsSameTenantNoAttrTest(user, obj) ==
    Bool(~user.null /\ "tenant" \in user.has /\ TenantEq(user.tenant, obj.tenant))
IsSameTenant(user, obj) ==
    IF ~obj.has_tenant THEN "False"
    ELSE Bool(~user.null /\ "tenant" \in user.has /\ TenantEq(user.tenant, obj.tenant))

\* One evaluation of a permission class: the class, the request's user and
\* method, the object, and the answer ("unevaluated" until the check ran).
Check(cls, user, method, obj, answer) ==
    [cls |-> cls, user |-> user, method |-> method, obj |-> obj, answer |-> answer]
NoCheck == Check(None, NullRequestUser, "GET", Obj(FALSE, NoneTenant), "unevaluated")

----------------------------------------------------------------------------
(* Requests *)

Request(pc, path, header, p) ==
    [pc |-> pc, path |-> path, header |-> header, ret |-> p.ret, auth |-> p.auth,
     resp |-> p.resp, exc |-> p.exc, tenant |-> p.tenant, calls |-> p.calls,
     data |-> {}, found |-> {}]

NoRequest ==
    [pc |-> "idle", path |-> <<>>, header |-> NoHeader, ret |-> None, auth |-> NotCalled,
     resp |-> NoResponse, exc |-> NoExc, tenant |-> NoneTenant, calls |-> {},
     data |-> {}, found |-> {}]

\* A thread is free when it serves no request: before its first one, after
\* process_response, after process_request let an exception out, or after
\* the request was aborted.
Free(t) == req[t].pc \in {"idle", "done", "raised", "aborted"}

Init ==
    /\ thread_locals = [t \in Threads |-> {}]
    /\ req = [t \in Threads |-> NoRequest]
    /\ users = InitUsers
    /\ tenants = [tn \in TenantIds |-> TRUE]
    /\ deactivating = {}
    /\ storage_up = TRUE
    /\ db_ops = 0
    /\ issued = InitIssued
    /\ patients = {}
    /\ perm = NoCheck
    /\ login = NoLogin

\* A request arrives on a free thread and the middleware's process_request runs.
ProcessRequest(t, paths, headers) ==
    /\ Free(t)
    /\ \E path \in paths, header \in headers :
        LET p == process_request(thread_locals, t, path, header, users, tenants,
                                 storage_up)
        IN /\ thread_locals' = p.tl
           \* found records, for the properties, the context the thread
           \* still held when the request arrived
           /\ req' = [req EXCEPT ![t] =
                        [Request(CASE p.ret = "None" -> "downstream"
                                   [] p.ret = "response" -> "short_circuit"
                                   [] OTHER -> "raised",
                                 path, header, p)
                         EXCEPT !.found = thread_locals[t]]]
    /\ UNCHANGED <<issued, patients, perm, login, users, tenants, deactivating, storage_up, db_ops>>

\* The downstream handler returns a response.
ViewReturn(t) ==
    /\ req[t].pc = "downstream"
    /\ req' = [req EXCEPT ![t].pc = "view_done",
                          ![t].resp = JsonResponse(None, None, "200"),
                          ![t].calls = @ \cup {"downstream"}]
    /\ UNCHANGED <<issued, patients, perm, login, thread_locals, users, tenants, deactivating, storage_up, db_ops>>

\* The downstream handler raises.
ViewRaise(t) ==
    /\ req[t].pc = "downstream"
    /\ req' = [req EXCEPT ![t].pc = "view_raised",
                          ![t].calls = @ \cup {"downstream"}]
    /\ UNCHANGED <<issued, patients, perm, login, thread_locals, users, tenants, deactivating, storage_up, db_ops>>

\* The request is aborted while its handler runs (the worker is interrupted
\* by a BaseException such as SystemExit, which Django's exception handling
\* lets through): neither process_exception nor process_response runs.
Abort(t) ==
    /\ req[t].pc = "downstream"
    /\ req' = [req EXCEPT ![t].pc = "aborted"]
    /\ UNCHANGED <<thread_locals, users, tenants, deactivating, storage_up, db_ops,
                   issued, patients, perm, login>>

\* Django hands the view's exception to process_exception, which returns
\* None, and turns the exception into a 500 response.
ProcessException(t) ==
    /\ req[t].pc = "view_raised"
    /\ thread_locals' = process_exception(thread_locals, t)
    /\ req' = [req EXCEPT ![t].pc = "exception_handled",
                          ![t].resp = JsonResponse(None, None, "500"),
                          ![t].calls = @ \cup {"process_exception"}]
    /\ UNCHANGED <<issued, patients, perm, login, users, tenants, deactivating, storage_up, db_ops>>

\* Django hands the response (the view's, the 500, or the one process_request
\* returned) to process_response.
ProcessResponse(t) ==
    /\ req[t].pc \in {"short_circuit", "view_done", "exception_handled"}
    /\ thread_locals' = process_response(thread_locals, t)
    /\ req' = [req EXCEPT ![t].pc = "done",
                          ![t].calls = @ \cup {"process_response"}]
    /\ UNCHANGED <<issued, patients, perm, login, users, tenants, deactivating, storage_up, db_ops>>

----------------------------------------------------------------------------
(* Tenant-filtered views: patients/views.py, patients/serializer.py *)

\* core/utils.py get_current_tenant, as the serializers and models import
\* it: the tenant context the middleware published on this thread.
utils_get_current_tenant(tl, t) == get_current_tenant(tl, t)

\* core/models.py TenantAwareModel.save: the tenant the record is saved
\* with; without one the context tenant is taken, and with an empty context
\* ValueError is raised and nothing is saved.
\* (faulty variant: saved with whatever the context holds)
TenantAwareSaveUnchecked(tenant, tl, t) ==
    IF tenant # NoneTenant THEN [ok |-> TRUE, tenant |-> tenant]
    ELSE [ok |-> TRUE, tenant |-> utils_get_current_tenant(tl, t)]
TenantAwareSave(tenant, tl, t) ==
    IF tenant # NoneTenant THEN [ok |-> TRUE, tenant |-> tenant]
    ELSE LET ctx == utils_get_current_tenant(tl, t)
         IN IF ctx # NoneTenant THEN [ok |-> TRUE, tenant |-> ctx]
            ELSE [ok |-> FALSE, tenant |-> NoneTenant]

\* A patient row; creator_tenant records, for the properties, the tenant of
\* the user whose request created it.
Patient(id, tenant, creator_tenant) ==
    [id |-> id, tenant |-> tenant, creator_tenant |-> creator_tenant]

\* TenantFilteredViewSet.get_queryset: queryset.filter(tenant=request.user.tenant)
\* (faulty variant: no filter)
get_queryset_all(ps, user) == ps
get_queryset(ps, user) == {p \in ps : p.tenant = user.tenant.id}

\* DRF's initial(): authentication_classes = [AuthenticationService] is run
\* again on the request, then permission_classes' has_permission.  The
\* result is the request.user the view works with and whether it may go on.
ViewInitial(t) ==
    LET a == ServiceAuthenticate(req[t].path, req[t].header, users, tenants, storage_up)
        user == IF a.kind = "ok" THEN AsRequestUser(a.user) ELSE AnonymousUser
    IN [auth |-> a, user |-> user,
        status |-> CASE a.kind = "raise" /\ a.exc.exc = "CustomAuthenticationFailed" -> "401"
                     [] a.kind = "raise" -> "500"
                     [] ~Grants(IsTenantUser(user)) -> "403"
                     [] OTHER -> "200"]

\* The view's step of a request that initial() stopped: a 401 or 403
\* response, or the exception handed on to Django.
ViewRefused(t, i) ==
    req' = [req EXCEPT ![t].pc = IF i.status = "500" THEN "view_raised" ELSE "view_done",
                       ![t].resp = IF i.status = "500" THEN NoResponse
                                   ELSE JsonResponse(None, None, i.status),
                       ![t].calls = @ \cup {"downstream"}]

\* GET on the patient collection: the rows get_queryset lets through.
ListPatients(t) ==
    /\ req[t].pc = "downstream"
    /\ req[t].path = PatientPath
    /\ LET i == ViewInitial(t)
       IN IF i.status # "200"
          THEN ViewRefused(t, i)
          ELSE req' = [req EXCEPT ![t].pc = "view_done",
                                  ![t].resp = JsonResponse(None, None, "200"),
                                  ![t].data = get_queryset(patients, i.user),
                                  ![t].calls = @ \cup {"downstream", "list"}]
    /\ UNCHANGED <<thread_locals, users, tenants, deactivating, storage_up, db_ops,
                   issued, patients, perm, login>>

\* POST on the patient collection: PatientViewSet.create with
\* PatientSerializer.create, which stamps the row with the context tenant.
\* Invalid data, or an exception while saving, gives a 400 response.
CreatePatient(t) ==
    /\ req[t].pc = "downstream"
    /\ req[t].path = PatientPath
    /\ Cardinality(patients) < MaxPatients
    /\ LET i == ViewInitial(t)
           saved == TenantAwareSave(utils_get_current_tenant(thread_locals, t),
                                    thread_locals, t)
           row == Patient(Cardinality(patients) + 1, saved.tenant.id, i.user.tenant.id)
       IN IF i.status # "200"
          THEN ViewRefused(t, i) /\ UNCHANGED patients
          ELSE \E is_valid \in BOOLEAN :
                IF is_valid /\ saved.ok
                THEN /\ patients' = patients \cup {row}
                     /\ req' = [req EXCEPT ![t].pc = "view_done",
                                           ![t].resp = JsonResponse(None, None, "201"),
                                           ![t].data = {row},
                                           ![t].calls = @ \cup {"downstream", "create"}]
                ELSE /\ UNCHANGED patients
                     /\ req' = [req EXCEPT ![t].pc = "view_done",
                                           ![t].resp = JsonResponse(None, None, "400"),
                                           ![t].calls = @ \cup {"downstream", "create"}]
    /\ UNCHANGED <<thread_locals, users, tenants, deactivating, storage_up, db_ops,
                   issued, perm, login>>

----------------------------------------------------------------------------
(* Permission checks as calls *)

\* The permission class is asked about the request (and object) in perm.
HasPermission(cls) ==
    /\ perm.answer = "unevaluated"
    /\ perm' = [perm EXCEPT
                  !.cls = cls,
                  !.answer = CASE cls = "IsTenantAdmin" -> IsTenantAdmin(perm.user)
                               [] cls = "IsTenantUser" -> IsTenantUser(perm.user)
                               [] cls = "IsTenantAdminOrReadOnly" ->
                                    IsTenantAdminOrReadOnly(perm.user, perm.method)
                               [] OTHER -> IsSameTenant(perm.user, perm.obj)]
    /\ UNCHANGED <<thread_locals, req, users, tenants, deactivating, storage_up, db_ops,
                   issued, patients, login>>

----------------------------------------------------------------------------
(* Records: tenants/models.py, accounts/models.py *)

\* Tenant.deactivate, first statement: is_active = False; save().
\* (faulty variant: the contexts that hold the tenant are cleared as well)
DeactivateSaveClearing(tn) ==
    /\ tn \notin deactivating
    /\ db_ops < MaxDbOps
    /\ db_ops' = db_ops + 1
    /\ tenants' = [tenants EXCEPT ![tn] = FALSE]
    /\ deactivating' = deactivating \cup {tn}
    /\ thread_locals' = [t \in Threads |->
                            {x \in thread_locals[t] : x.id # tn}]
    /\ UNCHANGED <<issued, patients, perm, login, req, users, storage_up>>
DeactivateSave(tn) ==
    /\ tn \notin deactivating
    /\ db_ops < MaxDbOps
    /\ db_ops' = db_ops + 1
    /\ tenants' = [tenants EXCEPT ![tn] = FALSE]
    /\ deactivating' = deactivating \cup {tn}
    /\ UNCHANGED <<issued, patients, perm, login, thread_locals, req, users, storage_up>>

\* Tenant.deactivate, second statement: self.users.update(is_active=False).
\* (faulty variant: the users are left as they are)
DeactivateUsersNoCascade(tn) ==
    /\ tn \in deactivating
    /\ deactivating' = deactivating \ {tn}
    /\ UNCHANGED <<issued, patients, perm, login, thread_locals, req, users, tenants, storage_up, db_ops>>
DeactivateUsers(tn) ==
    /\ tn \in deactivating
    /\ users' = [u \in AllUserIds |->
                    IF users[u].exists /\ users[u].tenant = tn
                    THEN [users[u] EXCEPT !.is_active = FALSE]
                    ELSE users[u]]
    /\ deactivating' = deactivating \ {tn}
    /\ UNCHANGED <<issued, patients, perm, login, thread_locals, req, tenants, storage_up, db_ops>>

\* Tenant.activate: is_active = True; save().
\* (faulty variant: the tenant's users are set active as well)
ActivateWithUsers(tn) ==
    /\ ~tenants[tn]
    /\ db_ops < MaxDbOps
    /\ db_ops' = db_ops + 1
    /\ tenants' = [tenants EXCEPT ![tn] = TRUE]
    /\ users' = [u \in AllUserIds |->
                    IF users[u].exists /\ users[u].tenant = tn
                    THEN [users[u] EXCEPT !.is_active = TRUE]
                    ELSE users[u]]
    /\ UNCHANGED <<issued, patients, perm, login, thread_locals, req, deactivating, storage_up>>
Activate(tn) ==
    /\ ~tenants[tn]
    /\ db_ops < MaxDbOps
    /\ db_ops' = db_ops + 1
    /\ tenants' = [tenants EXCEPT ![tn] = TRUE]
    /\ UNCHANGED <<issued, patients, perm, login, thread_locals, req, users, deactivating, storage_up>>

\* accounts/serializer.py UserCreateSerializer.create, called by the
\* handler of a request: the new user is given the tenant of the context
\* and, by the model's default, is_active = True; without a context
\* ValidationError is raised and the answer is 400.
CreateUser(t) ==
    /\ req[t].pc = "downstream"
    /\ LET tenant == get_current_tenant(thread_locals, t)
       IN IF tenant = NoneTenant
          THEN /\ UNCHANGED users
               /\ req' = [req EXCEPT ![t].pc = "view_done",
                                     ![t].resp = JsonResponse(None, None, "400"),
                                     ![t].calls = @ \cup {"downstream", "create"}]
          ELSE \E u \in NewUserIds : \E r \in {TENANT_ADMIN, TENANT_USER} :
                /\ ~users[u].exists
                /\ users' = [users EXCEPT ![u] =
                                [exists |-> TRUE, tenant |-> tenant.id,
                                 is_active |-> TRUE, role |-> r, is_staff |-> FALSE]]
                /\ req' = [req EXCEPT ![t].pc = "view_done",
                                      ![t].resp = JsonResponse(None, None, "201"),
                                      ![t].calls = @ \cup {"downstream", "create"}]
    /\ UNCHANGED <<issued, patients, perm, login, thread_locals, tenants, deactivating,
                   storage_up, db_ops>>

\* A user row is deleted.
DeleteUser(u) ==
    /\ users[u].exists
    /\ db_ops < MaxDbOps
    /\ db_ops' = db_ops + 1
    /\ users' = [users EXCEPT ![u].exists = FALSE]
    /\ UNCHANGED <<issued, patients, perm, login, thread_locals, req, tenants, deactivating, storage_up>>

\* A user's role is edited: user.role = r; user.save().
ChangeRole(u, r) ==
    /\ users[u].exists
    /\ users[u].role # r
    /\ db_ops < MaxDbOps
    /\ db_ops' = db_ops + 1
    /\ users' = [users EXCEPT ![u].role = r]
    /\ UNCHANGED <<issued, patients, perm, login, thread_locals, req, tenants, deactivating, storage_up>>

\* A user is moved to another tenant: user.tenant = tn; user.save().
ChangeTenant(u, tn) ==
    /\ users[u].exists
    /\ users[u].tenant \notin {None, tn}
    /\ db_ops < MaxDbOps
    /\ db_ops' = db_ops + 1
    /\ users' = [users EXCEPT ![u].tenant = tn]
    /\ UNCHANGED <<issued, patients, perm, login, thread_locals, req, tenants, deactivating, storage_up>>

\* accounts/serializer.py LoginSerializer.validate: the error it raises for
\* the user found by email, or None when it accepts the credentials.
\* (faulty variant: a tenant is demanded of every role)
LoginValidateTenantRequired(u, password_ok, us, tn) ==
    IF ~us[u].exists \/ ~password_ok
    THEN "Unable to log in with provided credentials."
    ELSE IF ~us[u].is_active
    THEN "User account is disabled."
    ELSE IF us[u].tenant = None \/ ~tn[us[u].tenant]
    THEN "Your organization account is inactive."
    ELSE None
LoginValidate(u, password_ok, us, tn) ==
    IF ~us[u].exists \/ ~password_ok
    THEN "Unable to log in with provided credentials."
    ELSE IF ~us[u].is_active
    THEN "User account is disabled."
    ELSE IF us[u].role # ADMIN /\ (us[u].tenant = None \/ ~tn[us[u].tenant])
    THEN "Your organization account is inactive."
    ELSE None

\* The login view: when the serializer accepts the credentials the strategy
\* hands out a token for the user as the record is now; otherwise the
\* serializer's error is the response.
Login(u) ==
    /\ storage_up
    /\ \E password_ok \in BOOLEAN :
        LET error == LoginValidate(u, password_ok, users, tenants)
            token == process_authentication(u, users[u])
        IN IF error = None
           THEN /\ Cardinality(issued \cup {token}) <= Cardinality(InitIssued) + MaxLogins
                /\ issued' = issued \cup {token}
                /\ login' = LoginResponse(u, password_ok, None, token)
           ELSE /\ issued' = issued
                /\ login' = LoginResponse(u, password_ok, error, EmptyToken)
    /\ UNCHANGED <<patients, perm, thread_locals, req, users, tenants, deactivating,
                   storage_up, db_ops>>

\* The database becomes unreachable, or reachable again.
StorageToggle ==
    /\ storage_up' = ~storage_up
    /\ UNCHANGED <<issued, patients, perm, login, thread_locals, req, users, tenants, deactivating, db_ops>>

----------------------------------------------------------------------------
(* Specifications *)

\* Spec: a worker thread serves one request after another, every path and
\* header, while records are deactivated, activated and deleted and the
\* storage comes and goes between the middleware's steps.
Worker == "th1"

Next ==
    \/ ProcessRequest(Worker, Paths, Headers)
    \/ ViewReturn(Worker)
    \/ ViewRaise(Worker)
    \/ ProcessException(Worker)
    \/ ProcessResponse(Worker)
    \/ \E tn \in TenantIds : DeactivateSave(tn)
    \/ \E tn \in TenantIds : DeactivateUsers(tn)
    \/ \E tn \in TenantIds : Activate(tn)
    \/ \E u \in UserIds : DeleteUser(u)
    \/ StorageToggle

Spec == Init /\ [][Next]_vars

\* ConcSpec: every thread serves requests, interleaved step by step with
\* the other threads, over records that stay as they are.
ConcHeaders == {NoHeader} \cup {Header("Bearer", Token("ok", u, InitUsers[u].role)) : u \in UserIds}
ConcPaths == {AdminPath, PatientPath}

ConcNext ==
    \/ \E t \in Threads : ProcessRequest(t, ConcPaths, ConcHeaders)
    \/ \E t \in Threads : ViewReturn(t)
    \/ \E t \in Threads : ViewRaise(t)
    \/ \E t \in Threads : ProcessException(t)
    \/ \E t \in Threads : ProcessResponse(t)

ConcSpec == Init /\ [][ConcNext]_vars

\* RoleSpec: users log in and bear the tokens they were handed to a
\* protected path, while roles and tenant memberships are edited.
IssuedHeaders == {Header("Bearer", tk) : tk \in issued}
EditableRoles == {TENANT_ADMIN, TENANT_USER}

RoleNext ==
    \/ \E u \in UserIds : Login(u)
    \/ \E u \in UserIds, r \in EditableRoles : ChangeRole(u, r)
    \/ \E u \in UserIds, tn \in TenantIds : ChangeTenant(u, tn)
    \/ ProcessRequest(Worker, {PatientPath}, IssuedHeaders)
    \/ ViewReturn(Worker)
    \/ ProcessResponse(Worker)

RoleSpec == Init /\ [][RoleNext]_vars

\* AccountSpec: users log in and send requests with the tokens handed out,
\* handlers create users, and tenants are deactivated and activated.
AccountNext ==
    \/ \E u \in AllUserIds : Login(u)
    \/ ProcessRequest(Worker, Paths, IssuedHeaders)
    \/ ViewReturn(Worker)
    \/ CreateUser(Worker)
    \/ ProcessResponse(Worker)
    \/ \E tn \in TenantIds : DeactivateSave(tn)
    \/ \E tn \in TenantIds : DeactivateUsers(tn)
    \/ \E tn \in TenantIds : Activate(tn)

AccountSpec == Init /\ [][AccountNext]_vars

\* ReuseSpec: a worker thread serves one request after another, some of
\* them aborted in their handler, while tenants are deactivated.
ReuseHeaders ==
    {NoHeader} \cup {Header("Bearer", tk) : tk \in InitIssued}

ReuseNext ==
    \/ ProcessRequest(Worker, Paths, ReuseHeaders)
    \/ ViewReturn(Worker)
    \/ ViewRaise(Worker)
    \/ ProcessException(Worker)
    \/ ProcessResponse(Worker)
    \/ Abort(Worker)
    \/ \E tn \in TenantIds : DeactivateSave(tn)
    \/ \E tn \in TenantIds : DeactivateUsers(tn)

ReuseSpec == Init /\ [][ReuseNext]_vars

\* DataSpec: users of the two tenants create and list patients, on every
\* thread, interleaved step by step.
DataHeaders == {Header("Bearer", process_authentication(u, InitUsers[u])) : u \in {"u1", "u2"}}

DataNext ==
    \/ \E t \in Threads : ProcessRequest(t, {PatientPath}, DataHeaders)
    \/ \E t \in Threads : CreatePatient(t)
    \/ \E t \in Threads : ListPatients(t)
    \/ \E t \in Threads : ProcessResponse(t)

DataSpec == Init /\ [][DataNext]_vars

\* PermSpec: each permission class is asked once about a request user, a
\* method and an object drawn from the ones below.
Roles == {TENANT_ADMIN, TENANT_USER, ADMIN}
\* Identities that lack attributes the permission classes read: an object
\* without any of them, an authenticated one with neither role nor tenant,
\* and an authenticated member of tenant tA without a role.
PartialUsers ==
    {RequestUser(FALSE, {}, FALSE, None, NoneTenant),
     RequestUser(FALSE, {"is_authenticated"}, TRUE, None, NoneTenant),
     RequestUser(FALSE, {"is_authenticated", "tenant"}, TRUE, None, TenantInst("tA", TRUE))}
PermUsers ==
    {NullRequestUser, AnonymousUser}
    \cup PartialUsers
    \cup {AsRequestUser(AuthenticatedUser(u, r, InitUsers[u], [tn \in TenantIds |-> TRUE]))
            : u \in {"u1", "u2", "u3"}, r \in Roles}
PermObjects ==
    {Obj(FALSE, NoneTenant), Obj(TRUE, NoneTenant)}
    \cup {Obj(TRUE, TenantInst(tn, a)) : tn \in TenantIds, a \in BOOLEAN}
PermClasses == {"IsTenantAdmin", "IsTenantUser", "IsTenantAdminOrReadOnly", "IsSameTenant"}

PermInit ==
    /\ thread_locals = [t \in Threads |-> {}]
    /\ req = [t \in Threads |-> NoRequest]
    /\ users = InitUsers
    /\ tenants = [tn \in TenantIds |-> TRUE]
    /\ deactivating = {}
    /\ storage_up = TRUE
    /\ db_ops = 0
    /\ issued = InitIssued
    /\ patients = {}
    /\ login = NoLogin
    /\ perm \in {Check(None, u, m, o, "unevaluated") :
                    u \in PermUsers, m \in Methods, o \in PermObjects}

PermNext == \E cls \in PermClasses : HasPermission(cls)

PermSpec == PermInit /\ [][PermNext]_vars

----------------------------------------------------------------------------
(* Vocabulary of the properties *)

Served(t) == req[t].pc # "idle"
InFlight(t) == ~Free(t)

\* A step in which a request arrives on thread t and process_request runs.
Arrives(t) == Free(t) /\ req'[t] # req[t]

\* The header is "Bearer <token>" with a well-formed, correctly signed,
\* unexpired token whose subject id is u.
ValidFor(header, u) ==
    /\ header.scheme = "Bearer"
    /\ header.token.form = "ok"
    /\ header.token.user_id = u

\* The path starts with an entry of the middleware's exclusion list.
OnExclusionList(path) == \E p \in EXCLUDED_PATHS : IsPrefix(p, path)

\* The path is one on which the middleware authenticates and the
\* authenticator reads the token.
Protected(path) == ~OnExclusionList(path) /\ ~IsPublic(path)

Called(t, name) == name \in req[t].calls

Forbidden(error, detail) == JsonResponse(error, detail, HTTP_403_FORBIDDEN)

----------------------------------------------------------------------------
(* Properties *)

\* C1 (ConcSpec). Isolation: while two requests on distinct threads overlap
\* and are resolved to distinct tenants, get_current_tenant() on one thread
\* never returns the tenant set by the other.
C1_Isolation ==
    \A t \in Threads, u \in Threads :
        (/\ t # u
         /\ InFlight(t) /\ InFlight(u)
         /\ Called(t, "set_current_tenant") /\ Called(u, "set_current_tenant")
         /\ req[t].tenant.id # req[u].tenant.id)
        => get_current_tenant(thread_locals, t) # req[u].tenant

\* Two requests of distinct tenants are in their handlers at once, each
\* thread seeing its own tenant.
C1_Witness ==
    /\ req["th1"].pc = "downstream" /\ req["th2"].pc = "downstream"
    /\ get_current_tenant(thread_locals, "th1") = TenantInst("tA", TRUE)
    /\ get_current_tenant(thread_locals, "th2") = TenantInst("tB", TRUE)

\* C2 (Spec). Once the middleware has finished with a request, by
\* process_response (after a normal response, a 403 short-circuit or a
\* handler exception) or by an exception out of process_request, the
\* thread's tenant context is empty.
C2_ContextEmptyAfterRequest ==
    \A t \in Threads :
        req[t].pc \in {"done", "raised"}
        => /\ thread_locals[t] = {}
           /\ get_current_tenant(thread_locals, t) = NoneTenant

\* A request that was resolved to a tenant has been answered.
C2_Witness ==
    /\ req[Worker].pc = "done"
    /\ Called(Worker, "set_current_tenant")
    /\ Called(Worker, "process_response")
    /\ thread_locals[Worker] = {}

\* The user exists and is active, and belongs to an active tenant.
ActiveMember(u) ==
    /\ users[u].exists /\ users[u].is_active
    /\ users[u].tenant # None
    /\ tenants[users[u].tenant]

\* A request arriving on a path satisfying OnPath while the storage answers,
\* bearing a valid token of an active user of an active tenant, is let
\* through with the context and request.tenant equal to the user's tenant.
ArrivalResolves(OnPath(_)) ==
    \A t \in Threads : \A u \in UserIds :
        (/\ Arrives(t) /\ storage_up
         /\ OnPath(req'[t].path)
         /\ ValidFor(req'[t].header, u)
         /\ ActiveMember(u))
        => /\ req'[t].ret = None
           /\ req'[t].pc = "downstream"
           /\ get_current_tenant(thread_locals', t) = TenantInst(users[u].tenant, TRUE)
           /\ req'[t].tenant = TenantInst(users[u].tenant, TRUE)

\* While the handler of such a request runs, the context and request.tenant
\* equal the tenant of the token's user.
HandlerSeesTenant(OnPath(_)) ==
    \A t \in Threads : \A u \in UserIds :
        (/\ req[t].pc = "downstream"
         /\ OnPath(req[t].path)
         /\ ValidFor(req[t].header, u))
        => /\ get_current_tenant(thread_locals, t) = req[t].tenant
           /\ req[t].tenant = req[t].auth.user.tenant
           /\ req[t].tenant.id = users[u].tenant

NotExcluded(path) == ~OnExclusionList(path)

C4_AuthFailureIs403 ==
    \A t \in Threads :
        (/\ Served(t)
         /\ ~OnExclusionList(req[t].path)
         /\ req[t].auth.kind = "raise"
         /\ req[t].auth.exc.exc = "CustomAuthenticationFailed")
        => /\ req[t].ret = "response"
           /\ req[t].resp = Forbidden("Credential Missing",
                                      "unable to authenticate your account")
           /\ ~Called(t, "downstream")

\* C5 (Spec). A request whose authenticated user's tenant is inactive at
\* request time gets 403 "Tenant inactive"; its handler is never called and
\* the tenant context is never set during that request.
C5_InactiveTenant403 ==
    /\ [][\A t \in Threads : \A u \in UserIds :
            (/\ Arrives(t) /\ storage_up
             /\ Protected(req'[t].path)
             /\ ValidFor(req'[t].header, u)
             /\ users[u].exists /\ users[u].tenant # None
             /\ ~tenants[users[u].tenant])
            => /\ req'[t].ret = "response"
               /\ req'[t].resp.status = HTTP_403_FORBIDDEN
               /\ req'[t].resp.error = "Tenant inactive"
               /\ thread_locals'[t] = {}]_vars
    /\ [](\A t \in Threads :
            (/\ Served(t)
             /\ req[t].auth.kind = "ok"
             /\ req[t].auth.user.tenant # NoneTenant
             /\ ~req[t].auth.user.tenant.is_active)
            => /\ req[t].resp.status = HTTP_403_FORBIDDEN
               /\ req[t].resp.error = "Tenant inactive"
               /\ ~Called(t, "downstream")
               /\ ~Called(t, "set_current_tenant")
               /\ thread_locals[t] = {}
               /\ req[t].tenant = NoneTenant)

\* A request bearing u1's token, made after tenant tA was deactivated, has
\* been answered 403 "Tenant inactive".
C5_Witness ==
    /\ req[Worker].pc = "done"
    /\ ValidFor(req[Worker].header, "u1")
    /\ req[Worker].auth.user.tenant = TenantInst("tA", FALSE)
    /\ req[Worker].resp.error = "Tenant inactive"

\* C6 (Spec). A request whose authenticated identity has no tenant gets 403
\* "No tenant associated with user"; its handler is never called and the
\* tenant context is never set.
C6_NoTenant403 ==
    /\ [][\A t \in Threads : \A u \in UserIds :
            (/\ Arrives(t) /\ storage_up
             /\ Protected(req'[t].path)
             /\ ValidFor(req'[t].header, u)
             /\ users[u].exists /\ users[u].tenant = None)
            => /\ req'[t].ret = "response"
               /\ req'[t].resp.status = HTTP_403_FORBIDDEN
               /\ req'[t].resp.error = "No tenant associated with user"
               /\ thread_locals'[t] = {}]_vars
    /\ [](\A t \in Threads :
            (/\ Served(t)
             /\ req[t].auth.kind = "ok"
             /\ req[t].auth.user.tenant = NoneTenant)
            => /\ req[t].resp.status = HTTP_403_FORBIDDEN
               /\ req[t].resp.error = "No tenant associated with user"
               /\ ~Called(t, "downstream")
               /\ ~Called(t, "set_current_tenant")
               /\ thread_locals[t] = {}
               /\ req[t].tenant = NoneTenant)

\* A request bearing the token of u3, who has no tenant, has been answered.
C6_Witness ==
    /\ req[Worker].pc = "done"
    /\ ValidFor(req[Worker].header, "u3")
    /\ req[Worker].auth.kind = "ok"
    /\ req[Worker].resp.error = "No tenant associated with user"

\* C7 (Spec). A request without Authorization header to a path on the
\* authenticator's public allowlist: the authenticator returns None and the
\* middleware passes the request through, with no failure and no tenant
\* context, also when the path is not on the middleware's exclusion list.
C7_PublicPathPassesThrough ==
    \A t \in Threads :
        (/\ Served(t)
         /\ IsPublic(req[t].path)
         /\ req[t].header = NoHeader)
        => /\ req[t].auth.kind \in {"none", "notcalled"}
           /\ req[t].ret = None
           /\ req[t].exc = NoExc
           /\ ~Called(t, "set_current_tenant")

\* C8 (Spec). A request whose path starts with an entry of EXCLUDED_PATHS
\* is passed through without the authenticator being invoked and without a
\* tenant context, whatever its Authorization header.
C8_ExcludedPathBypasses ==
    \A t \in Threads :
        (Served(t) /\ OnExclusionList(req[t].path))
        => /\ req[t].ret = None
           /\ req[t].auth = NotCalled
           /\ ~Called(t, "authenticate")
           /\ ~Called(t, "token_validation")
           /\ ~Called(t, "set_current_tenant")
           /\ thread_locals[t] = {}
           /\ req[t].tenant = NoneTenant

\* A request below /admin/ bearing a valid token is in its handler, with no
\* tenant context.
C8_Witness ==
    /\ req[Worker].pc = "downstream"
    /\ req[Worker].path = AdminPath
    /\ ValidFor(req[Worker].header, "u1")
    /\ get_current_tenant(thread_locals, Worker) = NoneTenant

\* C9 (Spec). A valid token whose subject id references no existing user
\* makes authenticate fail with the authentication failure "User not
\* found"; no other exception leaves the authenticator.
C9_LookupMissIsAuthFailure ==
    [][\A t \in Threads : \A u \in UserIds :
        (/\ Arrives(t) /\ storage_up
         /\ Protected(req'[t].path)
         /\ ValidFor(req'[t].header, u)
         /\ ~users[u].exists)
        => /\ req'[t].auth.kind = "raise"
           /\ req'[t].auth.exc = CustomAuthenticationFailed("User not found")]_vars

\* C10 (Spec). No exception escapes process_request.
C10_NoExceptionEscapes ==
    \A t \in Threads : req[t].ret # "raise" /\ req[t].exc = NoExc

----------------------------------------------------------------------------
(* Properties of the authenticator *)

\* The authenticator read the request's header: the path is neither
\* excluded by the middleware nor public for the authenticator.
HeaderRead(t) == Served(t) /\ Called(t, "authenticate") /\ ~IsPublic(req[t].path)

\* The header is missing, has another prefix than "Bearer ", or is
\* "Bearer " followed by the empty token.
MalformedHeader(header) ==
    \/ header = NoHeader
    \/ header.scheme # "Bearer"
    \/ header = Header("Bearer", EmptyToken)

\* C11 (Spec). For every malformed Authorization header (missing, wrong
\* prefix, "Bearer " with an empty token) authenticate fails with
\* CustomAuthenticationFailed and token_validation is not called.
C11_MalformedHeaderSkipsValidator ==
    \A t \in Threads :
        (HeaderRead(t) /\ MalformedHeader(req[t].header))
        => /\ req[t].auth.kind = "raise"
           /\ req[t].auth.exc.exc = "CustomAuthenticationFailed"
           /\ ~Called(t, "token_validation")

\* The token is invalid for one of the four causes: malformed, wrongly
\* signed, expired, or valid without the user_id claim.
InvalidToken(token) ==
    \/ token.form \in {"malformed", "badsig", "expired", "expired_badsig"}
    \/ token.form = "ok" /\ token.user_id = None
InvalidTokenHeaders == {Header("Bearer", tk) : tk \in {x \in Tokens : InvalidToken(x)}}

\* C12 (Spec). Anti-oracle: any two requests that differ only in why their
\* token is invalid get the same failure from the authenticator (same
\* exception, same message, nothing else returned), and the middleware's
\* outcome for each of them is that one failure.
C12_AntiOracle ==
    /\ \A h1 \in InvalidTokenHeaders, h2 \in InvalidTokenHeaders :
        \A path \in Paths :
            LET p1 == process_request(thread_locals, Worker, path, h1, users, tenants, storage_up)
                p2 == process_request(thread_locals, Worker, path, h2, users, tenants, storage_up)
            IN /\ p1.auth.kind = p2.auth.kind
               /\ p1.auth.exc = p2.auth.exc
               /\ p1.auth.user = p2.auth.user
               /\ p1.ret = p2.ret /\ p1.resp = p2.resp /\ p1.exc = p2.exc
    /\ \A t \in Threads :
        (HeaderRead(t) /\ req[t].header \in InvalidTokenHeaders)
        => /\ req[t].auth.kind = "raise"
           /\ req[t].auth.exc = CustomAuthenticationFailed("Token expired or Invalid")
           /\ req[t].auth.user = NoUser

\* A request with a wrongly signed token was refused with the common message.
C12_Witness ==
    /\ HeaderRead(Worker)
    /\ req[Worker].header = Header("Bearer", Token("badsig", "u1", TENANT_USER))
    /\ req[Worker].auth.exc = CustomAuthenticationFailed("Token expired or Invalid")

Expired(token) == token.form \in {"expired", "expired_badsig"}

\* C13 (Spec). Every token past its expiry is rejected by token_validation,
\* with a valid signature or not, and no request bearing one is ever
\* authenticated or given a tenant context.
C13_ExpiredRejected ==
    /\ \A tk \in Tokens : Expired(tk) => ~token_validation(tk).ok
    /\ \A t \in Threads :
        (/\ Served(t)
         /\ req[t].header.scheme = "Bearer"
         /\ Expired(req[t].header.token))
        => /\ req[t].auth.kind # "ok"
           /\ req[t].auth.user = NoUser
           /\ ~Called(t, "get_user")
           /\ ~Called(t, "set_current_tenant")
           /\ req[t].tenant = NoneTenant
           /\ (HeaderRead(t) =>
                 req[t].auth.exc = CustomAuthenticationFailed("Token expired or Invalid"))

\* A request with a correctly signed, expired token of u1 was refused by
\* the validator.
C13_Witness ==
    /\ HeaderRead(Worker)
    /\ req[Worker].header = Header("Bearer", Token("expired", "u1", TENANT_USER))
    /\ Called(Worker, "token_validation")
    /\ req[Worker].auth.kind = "raise"

\* C14 (Spec). A well-formed, correctly signed, unexpired token without
\* the user_id claim is rejected with an authentication failure and no
\* user lookup is made for it.
C14_NoSubjectRejected ==
    \A t \in Threads :
        (/\ HeaderRead(t)
         /\ req[t].header.scheme = "Bearer"
         /\ req[t].header.token.form = "ok"
         /\ req[t].header.token.user_id = None)
        => /\ req[t].auth.kind = "raise"
           /\ req[t].auth.exc.exc = "CustomAuthenticationFailed"
           /\ Called(t, "token_validation")
           /\ ~Called(t, "get_user")

\* A request with such a token was refused after validation.
C14_Witness ==
    /\ HeaderRead(Worker)
    /\ req[Worker].header = Header("Bearer", Token("ok", None, TENANT_USER))
    /\ req[Worker].auth.kind = "raise"
    /\ Called(Worker, "token_validation")

----------------------------------------------------------------------------
(* Properties of the records *)

\* Steps of a deactivate() call on tenant tn: its first statement runs, its
\* last statement runs.
DeactivateBegins(tn) == tn \notin deactivating /\ tn \in deactivating'
DeactivateCompletes(tn) == tn \in deactivating /\ tn \notin deactivating'

C17_InactiveUserRefused ==
    [][\A t \in Threads : \A u \in UserIds :
        (/\ Arrives(t) /\ storage_up
         /\ Protected(req'[t].path)
         /\ ValidFor(req'[t].header, u)
         /\ users[u].exists /\ ~users[u].is_active)
        => /\ req'[t].ret # None
           /\ req'[t].pc # "downstream"
           /\ ~("set_current_tenant" \in req'[t].calls)
           /\ thread_locals'[t] = {}]_vars

----------------------------------------------------------------------------
(* Properties of the identity *)

\* The Tenant row user.tenant loads now.
LiveTenant(u) ==
    IF users[u].tenant = None THEN NoneTenant
    ELSE TenantInst(users[u].tenant, tenants[users[u].tenant])

\* C16 (RoleSpec). A token carries the role its user had when it was
\* handed out, and the identity resolved for a request carries the token's
\* role, also after the user's role was edited, while the identity's tenant
\* is the one on the user record at request time.
C16_RoleFromTokenTenantFromRecord ==
    /\ [][issued' # issued =>
            \E u \in UserIds :
                issued' = issued \cup {Token("ok", u, users[u].role)}]_vars
    /\ [][\A t \in Threads : \A u \in UserIds :
            (/\ Arrives(t)
             /\ req'[t].header \in IssuedHeaders
             /\ req'[t].header.token.user_id = u
             /\ users[u].exists)
            => /\ req'[t].auth.kind = "ok"
               /\ req'[t].auth.user.id = u
               /\ req'[t].auth.user.role = req'[t].header.token.role
               /\ req'[t].auth.user.tenant = LiveTenant(u)]_vars

\* A request of u1 was resolved with the role of its token, tenant_user,
\* after u1 was made tenant admin and moved to tenant tB.
C16_Witness ==
    /\ req[Worker].pc = "downstream"
    /\ req[Worker].header = Header("Bearer", Token("ok", "u1", TENANT_USER))
    /\ users["u1"].role = TENANT_ADMIN
    /\ users["u1"].tenant = "tB"
    /\ req[Worker].auth.user.role = TENANT_USER
    /\ req[Worker].auth.user.tenant = TenantInst("tB", TRUE)

----------------------------------------------------------------------------
(* Properties of the tenant-filtered views *)

\* C18 (DataSpec). Tenant data isolation: every row is stamped with the
\* tenant of the user whose request created it, and every row a list
\* request returns has the tenant of the requesting user and was created by
\* a request of a user of that tenant.
C18_TenantDataIsolation ==
    /\ \A p \in patients : p.tenant = p.creator_tenant
    /\ \A t \in Threads : \A p \in req[t].data :
            /\ p.tenant = req[t].auth.user.tenant.id
            /\ p.creator_tenant = req[t].auth.user.tenant.id

\* Users of both tenants have created a row, and the list request of u1
\* (tenant tA) returned tA's row and nothing else.
C18_Witness ==
    /\ \E p \in patients : p.tenant = "tA"
    /\ \E p \in patients : p.tenant = "tB"
    /\ \E t \in Threads :
        /\ Called(t, "list")
        /\ req[t].auth.user.id = "u1"
        /\ req[t].data = {p \in patients : p.tenant = "tA"}
        /\ req[t].data # {}

----------------------------------------------------------------------------
(* Properties of the permission classes *)

Evaluated(cls) == perm.cls = cls /\ perm.answer # "unevaluated"

\* The user is an authenticated identity.
Authenticated(user) ==
    ~user.null /\ "is_authenticated" \in user.has /\ user.is_authenticated

\* The user is null, or an identity whose is_authenticated is false.
Unauthenticated(user) ==
    user.null \/ ("is_authenticated" \in user.has /\ ~user.is_authenticated)

\* The identity has a tenant attribute, and it equals the object's.
SameTenantAs(user, obj) ==
    /\ ~user.null /\ "tenant" \in user.has
    /\ obj.has_tenant
    /\ user.tenant.id = obj.tenant.id

C20_AdminOrReadOnly ==
    Evaluated("IsTenantAdminOrReadOnly")
    => /\ (Authenticated(perm.user) /\ perm.user.tenant # NoneTenant
            /\ perm.method \in SAFE_METHODS)
          => Grants(perm.answer)
       /\ perm.method \notin SAFE_METHODS
          => (Grants(perm.answer)
                <=> Authenticated(perm.user) /\ perm.user.role = TENANT_ADMIN)
       /\ Unauthenticated(perm.user) => perm.answer = "False"

\* A tenant user's POST was denied.
C20_Witness ==
    /\ Evaluated("IsTenantAdminOrReadOnly")
    /\ Authenticated(perm.user)
    /\ perm.user.role = TENANT_USER
    /\ perm.user.tenant # NoneTenant
    /\ perm.method = "POST"
    /\ perm.answer = "False"

\* The attributes of request.user a permission class reads.
AttributesRead(cls) ==
    CASE cls = "IsTenantAdmin" -> {"is_authenticated", "role"}
      [] cls = "IsTenantUser" -> {"is_authenticated", "tenant"}
      [] cls = "IsTenantAdminOrReadOnly" -> {"is_authenticated", "role"}
      [] OTHER -> {"tenant"}

\* The answer denies: False, or the None that "request.user and ..." gives.
Denies(answer) == answer \in {"False", "None"}

\* C21 (PermSpec). Every permission class fails closed: asked about a null
\* identity, an identity that lacks an attribute the class reads, or (for
\* IsSameTenant) an object without a tenant attribute, it returns a denying
\* value and does not raise.
C21_FailClosed ==
    \A cls \in PermClasses :
        (/\ Evaluated(cls)
         /\ \/ perm.user.null
            \/ ~(AttributesRead(cls) \subseteq perm.user.has)
            \/ cls = "IsSameTenant" /\ ~perm.obj.has_tenant)
        => /\ perm.answer # "AttributeError"
           /\ Denies(perm.answer)

\* C29 (PermSpec). IsSameTenant never grants to an identity whose tenant is
\* None, whatever the object, an object whose tenant is None included.
C29_NullTenantNeverGranted ==
    (/\ Evaluated("IsSameTenant")
     /\ ~perm.user.null /\ "tenant" \in perm.user.has
     /\ perm.user.tenant = NoneTenant)
    => ~Grants(perm.answer)

----------------------------------------------------------------------------
(* Properties of the context and of the request's course *)

\* C22 (ConcSpec). clear_current_tenant is idempotent: on every thread and
\* in every state a call raises nothing, leaves that thread's context empty
\* and the other threads' as they were, changes nothing when no tenant is
\* set, and a second call right after it changes nothing and raises nothing.
C22_ClearIdempotent ==
    \A t \in Threads :
        LET once == clear_current_tenant_call(thread_locals, t)
            twice == clear_current_tenant_call(once.tl, t)
        IN /\ ~once.raised /\ ~twice.raised
           /\ once.tl[t] = {}
           /\ twice.tl = once.tl
           /\ thread_locals[t] = {} => once.tl = thread_locals
           /\ \A u \in Threads \ {t} : once.tl[u] = thread_locals[u]
           /\ clear_current_tenant(thread_locals, t) = once.tl

\* A request below /admin/ was answered on th1: process_request and then
\* process_response called clear_current_tenant with no tenant set, while
\* th2 holds the tenant of its request.
C22_Witness ==
    /\ req["th1"].pc = "done"
    /\ req["th1"].path = AdminPath
    /\ Called("th1", "clear_current_tenant")
    /\ Called("th1", "process_response")
    /\ ~Called("th1", "set_current_tenant")
    /\ thread_locals["th1"] = {}
    /\ thread_locals["th2"] # {}

\* The outcomes of process_request.
PublicExempt(t) ==
    req[t].ret = None /\ req[t].auth.kind \in {"notcalled", "none"}
AuthFailed(t) ==
    req[t].auth.kind = "raise" \/ req[t].resp.error = "Credential Missing"
NoTenant(t) == req[t].resp.error = "No tenant associated with user"
TenantInactiveOutcome(t) == req[t].resp.error = "Tenant inactive"
Resolved(t) == Called(t, "set_current_tenant")
Outcomes(t) ==
    {o \in {"PUBLIC-EXEMPT", "AUTH-FAILED", "NO-TENANT", "TENANT-INACTIVE", "RESOLVED"} :
        CASE o = "PUBLIC-EXEMPT" -> PublicExempt(t)
          [] o = "AUTH-FAILED" -> AuthFailed(t)
          [] o = "NO-TENANT" -> NoTenant(t)
          [] o = "TENANT-INACTIVE" -> TenantInactiveOutcome(t)
          [] OTHER -> Resolved(t)}

\* C23 (Spec). Every request the middleware handles is CLEARED, has exactly
\* one of the five outcomes, and the middleware is not done with it before
\* its own process_response has run (RESPONDED) and left the context empty
\* (CLEANED-UP), whatever the outcome, AUTH-FAILED included.
C23_RequestLifecycle ==
    \A t \in Threads :
        Served(t)
        => /\ Called(t, "clear_current_tenant")
           /\ Cardinality(Outcomes(t)) = 1
           /\ Free(t) => /\ Called(t, "process_response")
                         /\ thread_locals[t] = {}

\* C24 (ReuseSpec). On a thread reused for successive requests
\* process_request clears the context before anything else: from its
\* arrival on, the context of a request is its own tenant when it was
\* resolved and empty otherwise, whatever context the thread still held
\* from an earlier request.
C24_NoLeakFromEarlierRequest ==
    /\ [][\A t \in Threads :
            Arrives(t)
            => thread_locals'[t] =
                 IF "set_current_tenant" \in req'[t].calls THEN {req'[t].tenant} ELSE {}]_vars
    /\ [](\A t \in Threads :
            (Served(t) /\ req[t].pc # "aborted")
            => /\ get_current_tenant(thread_locals, t) \in {NoneTenant, req[t].tenant}
               /\ ~Resolved(t) => get_current_tenant(thread_locals, t) = NoneTenant)

\* A request of u3, who has no tenant, arrived on a thread that still held
\* tenant tA from an aborted request, and was refused with an empty context.
C24_Witness ==
    /\ req[Worker].found = {TenantInst("tA", TRUE)}
    /\ req[Worker].pc = "short_circuit"
    /\ NoTenant(Worker)
    /\ get_current_tenant(thread_locals, Worker) = NoneTenant

----------------------------------------------------------------------------
(* Properties of the records *)

\* The tenants a record can carry when save is called.
SaveInputs ==
    {NoneTenant} \cup {TenantInst(tn, a) : tn \in TenantIds, a \in BOOLEAN}

\* C25 (DataSpec). No tenant-aware record is persisted without a tenant:
\* in every state and on every thread, save keeps the tenant of a record
\* that has one, gives a record without one the context tenant, and with an
\* empty context raises and saves nothing; every row stored has a tenant,
\* and a row a request adds carries the tenant of that request's context.
C25_NeverSavedWithoutTenant ==
    /\ [](\A p \in patients : p.tenant # None)
    /\ [](\A t \in Threads : \A tn \in SaveInputs :
            LET saved == TenantAwareSave(tn, thread_locals, t)
                ctx == get_current_tenant(thread_locals, t)
            IN /\ tn # NoneTenant => saved.ok /\ saved.tenant = tn
               /\ (tn = NoneTenant /\ ctx # NoneTenant) => saved.ok /\ saved.tenant = ctx
               /\ (tn = NoneTenant /\ ctx = NoneTenant) => ~saved.ok
               /\ saved.ok => saved.tenant # NoneTenant)
    /\ [][\A t \in Threads :
            (req[t].pc = "downstream" /\ req'[t].pc # "downstream")
            => \/ /\ patients' = patients
                  /\ req'[t].resp.status # "201"
               \/ /\ get_current_tenant(thread_locals, t) # NoneTenant
                  /\ \E row \in patients' \ patients :
                        /\ patients' = patients \cup {row}
                        /\ row.tenant = get_current_tenant(thread_locals, t).id]_vars

\* A request of tenant tA stored a patient while the other thread, serving
\* nothing, has an empty context, in which save of a record without tenant
\* raises.
C25_Witness ==
    \E t \in Threads : \E o \in Threads \ {t} : \E p \in patients :
        /\ req[t].pc = "view_done"
        /\ req[t].data = {p}
        /\ req[t].resp.status = "201"
        /\ p.tenant = "tA"
        /\ thread_locals[o] = {}
        /\ ~TenantAwareSave(NoneTenant, thread_locals, o).ok

\* C27 (Spec). Tenant.deactivate() running while a request of the tenant
\* is RESOLVED leaves that request and its context as they are: neither
\* statement of deactivate touches a context, and from publication until
\* process_response the handler's get_current_tenant() is the tenant that
\* was found active and published, whatever the tenant's row says by then
\* (process_exception, like process_response, is the request's cleanup).
C27_DeactivateKeepsContext ==
    /\ [][\A tn \in TenantIds :
            (DeactivateBegins(tn) \/ DeactivateCompletes(tn))
            => /\ thread_locals' = thread_locals
               /\ req' = req]_vars
    /\ [](\A t \in Threads :
            (InFlight(t) /\ Resolved(t) /\ ~Called(t, "process_exception"))
            => /\ get_current_tenant(thread_locals, t) = req[t].tenant
               /\ req[t].tenant # NoneTenant
               /\ req[t].tenant.is_active)

\* The handler of a request of tenant tA runs with tA in its context after
\* deactivate() of tA has completed and left the tenant inactive.
C27_Witness ==
    /\ req[Worker].pc = "downstream"
    /\ Resolved(Worker)
    /\ get_current_tenant(thread_locals, Worker) = TenantInst("tA", TRUE)
    /\ ~tenants["tA"]
    /\ "tA" \notin deactivating
    /\ ~users["u1"].is_active

\* C26 (AccountSpec). While no deactivate() call is in progress, every user
\* that belongs to an inactive tenant is inactive, the users created by
\* UserCreateSerializer.create in a request resolved before the tenant was
\* deactivated included.
C26_InactiveTenantHasNoActiveUser ==
    \A tn \in TenantIds : \A u \in AllUserIds :
        (/\ deactivating = {}
         /\ ~tenants[tn]
         /\ users[u].exists
         /\ users[u].tenant = tn)
        => ~users[u].is_active

----------------------------------------------------------------------------
(* Properties of login *)

\* A step in which the login view answers an attempt for user u made with
\* the right password.
LoginAnswers(u) ==
    /\ login' # login
    /\ login'.user = u
    /\ login'.password_ok

\* C28 (AccountSpec). deactivate() followed by activate() is not a round
\* trip: activate() sets the tenant's flag and leaves every user as they
\* are, so the users deactivate() set inactive stay inactive under an active
\* tenant, and a login of an inactive user is refused with "User account is
\* disabled." and hands out no token, whatever the tenant's state.
C28_ActivateLeavesUsersInactive ==
    /\ [][\A tn \in TenantIds :
            (~tenants[tn] /\ tenants'[tn])
            => /\ users' = users
               /\ \A x \in TenantIds \ {tn} : tenants'[x] = tenants[x]]_vars
    /\ [][\A u \in AllUserIds :
            (LoginAnswers(u) /\ users[u].exists /\ ~users[u].is_active)
            => /\ login'.error = "User account is disabled."
               /\ login'.keys = {}
               /\ issued' = issued]_vars
    /\ [](\A u \in AllUserIds :
            (users[u].exists /\ ~users[u].is_active)
            => LoginValidate(u, TRUE, users, tenants) = "User account is disabled.")

\* Tenant tA is active again after deactivate() and activate(), its user u1
\* is still inactive, and a login of u1 has been refused as disabled.
C28_Witness ==
    /\ tenants["tA"]
    /\ "tA" \notin deactivating
    /\ db_ops >= 2
    /\ users["u1"].exists /\ ~users["u1"].is_active
    /\ login.user = "u1"
    /\ login.password_ok
    /\ login.error = "User account is disabled."

\* An active user with role admin and no tenant.
TenantlessAdmin(u) ==
    /\ users[u].exists /\ users[u].is_active
    /\ users[u].role = ADMIN
    /\ users[u].tenant = None

\* The login view accepts a tenantless admin and answers with an access and
\* a refresh token.
AdminLoginSucceeds ==
    \A u \in AllUserIds :
        (LoginAnswers(u) /\ TenantlessAdmin(u))
        => /\ login'.error = None
           /\ {"access_token", "refresh_token"} \subseteq login'.keys
           /\ login'.access_token = Token("ok", u, ADMIN)
           /\ login'.access_token \in issued'

\* A request arriving on a path satisfying OnPath with the token of a
\* tenantless admin is answered 403 "No tenant associated with user".
AdminTokenRefused(OnPath(_)) ==
    \A t \in Threads : \A u \in AllUserIds :
        (/\ Arrives(t) /\ storage_up
         /\ OnPath(req'[t].path)
         /\ ValidFor(req'[t].header, u)
         /\ TenantlessAdmin(u))
        => /\ req'[t].ret = "response"
           /\ req'[t].resp = Forbidden("No tenant associated with user",
                                       "Your account is not associated with any organization.")
           /\ thread_locals'[t] = {}

\* No request on a path satisfying OnPath with the token of a tenantless
\* user reaches its handler or has a tenant context.
AdminNeverResolved(OnPath(_)) ==
    \A t \in Threads : \A u \in AllUserIds :
        (/\ Served(t)
         /\ OnPath(req[t].path)
         /\ ValidFor(req[t].header, u)
         /\ users[u].exists /\ users[u].tenant = None)
        => /\ ~Called(t, "set_current_tenant")
           /\ ~Called(t, "downstream")
           /\ thread_locals[t] = {}

====
